---- MODULE Spec2Model ----
(***************************************************************************)
(* Board / list / card store of the task-board server and the request      *)
(* handlers of src/src/routes/board.js.  A handler is an async function:   *)
(* every `await` of a database call is one atomic step at the database,    *)
(* and between two awaits of one request the steps of other requests may   *)
(* run.  The store is the four collections Users, Boards, Lists, Cards.    *)
(***************************************************************************)
EXTENDS Integers, Sequences, FiniteSets, TLC

\* ------------------------------------------------------------------ bounds
MaxBoards == 2
MaxLists == 2
MaxCards == 2
MaxPos == 1
MaxRefs == 3
NumSlots == 2

Users == {"u1", "u2"}
Emails == {"u1@x", "u2@x", "nobody@x"}
Slots == 1..NumSlots
None == 0
NoUser == "none"

BoardIds == 1..MaxBoards
ListIds == 1..MaxLists
CardIds == 1..MaxCards
\* req.body.position of moveCard: absent (None - 1) or a number
Undefined == 0 - 1
Positions == {Undefined} \cup (0..MaxPos)

VARIABLES boards, lists, cards, userBoards, reqs

vars == <<boards, lists, cards, userBoards, reqs>>
store == <<boards, lists, cards, userBoards>>

\* ------------------------------------------------------------ entity model
\* User collection: the registered users and their unique emails.
UserEmail == [u \in Users |-> IF u = "u1" THEN "u1@x" ELSE "u2@x"]

\* The paths userSchema declares; `boards` is commented out.
userSchema == {"name", "email", "password"}

\* User.findOne({ email })
FindUserByEmail(e) ==
  IF \E u \in Users : UserEmail[u] = e
  THEN CHOOSE u \in Users : UserEmail[u] = e
  ELSE NoUser

NewBoard(u) == [owner |-> u, members |-> <<u>>, lists |-> <<>>]
\* cardSchema: the enumerations of priority and status and their defaults
PriorityEnum == {"Critical", "High", "Medium", "Low"}
StatusEnum == {"Backlog", "Todo", "In Progress", "Review", "Done", "Blocked"}
DefaultPriority == "Low"
DefaultStatus == "Todo"

\* A field a request body does not supply
Absent == "absent"
\* dueDate: null, or a time in half days
NoDate == 0 - 1
\* A list name is a string: the sequence of its characters
NoName == <<>>
DefaultName == <<"T", "o", "d", "o">>

\* req.body of createList (name), createCard (dueDate) and patchCard (the
\* updates besides list and position)
NoBody ==
  [name |-> NoName, dueDate |-> NoDate, priority |-> Absent, status |-> Absent,
   createdBy |-> NoUser]

NewList(b, n, name) == [name |-> name, board |-> b, position |-> n, cards |-> <<>>]

\* new Card({ title, description, list, position, dueDate, createdBy }):
\* priority and status take the schema defaults
NewCard(l, n, u, due) ==
  [list |-> l, position |-> n, dueDate |-> due, priority |-> DefaultPriority,
   status |-> DefaultStatus, createdBy |-> u]

BoardExists(b) == b \in 1..Len(boards)
ListExists(l) == l \in 1..Len(lists)
CardExists(c) == c \in 1..Len(cards)

\* --------------------------------------------------------------- sequences
RECURSIVE WithoutFirst(_, _)
\* (a removal of the first occurrence only)
WithoutFirst(s, x) ==
  IF s = <<>> THEN <<>>
  ELSE IF Head(s) = x THEN Tail(s)
       ELSE <<Head(s)>> \o WithoutFirst(Tail(s), x)

RECURSIVE Without(_, _)
\* $pull: every occurrence of x removed
Without(s, x) ==
  IF s = <<>> THEN <<>>
  ELSE IF Head(s) = x THEN Without(Tail(s), x)
       ELSE <<Head(s)>> \o Without(Tail(s), x)

\* (Array.prototype.includes on ObjectId objects: identity, never equal)
IncludesByReference(s, x) == FALSE

\* MongooseArray.includes: the ids compared by value
Includes(s, x) == \E i \in 1..Len(s) : s[i] = x

\* ------------------------------------------------------------ access check
\* Strings compared by the checks: the hex string of an ObjectId, or the
\* inspect string a populated document's toString() gives.
HexString(u) == [form |-> "hex", of |-> u]
InspectString(u) == [form |-> "inspect", of |-> u]

\* (the owner comparison inverted: === for !==)
AccessDeniedInverted(board, userId) ==
  /\ HexString(board.owner) = HexString(userId)
  /\ ~\E i \in 1..Len(board.members) : HexString(board.members[i]) = HexString(userId)

\* board.owner.toString() !== req.user.id &&
\*   !board.members.some((m) => m._id.toString() === req.user.id)
AccessDenied(board, userId) ==
  /\ HexString(board.owner) # HexString(userId)
  /\ ~\E i \in 1..Len(board.members) : HexString(board.members[i]) = HexString(userId)

\* The same check in router.get('/:id'), where owner and members are populated:
\* board.owner is a User document, members are documents with an _id.
AccessDeniedPopulated(board, userId) ==
  /\ InspectString(board.owner) # HexString(userId)
  /\ ~\E i \in 1..Len(board.members) : HexString(board.members[i]) = HexString(userId)

\* (the general access check used where only the owner may act)
InviteDeniedUnlessMember(board, userId) == AccessDenied(board, userId)

\* board.owner.toString() !== req.user.id, in router.post('/:id/invite')
InviteDenied(board, userId) == HexString(board.owner) # HexString(userId)

\* position || 0
PositionOrZero(p) == IF p = Undefined \/ p = 0 THEN 0 ELSE p

\* Card.countDocuments({ list }) and List.countDocuments({ board })
CountCards(l) == Cardinality({c \in 1..Len(cards) : cards[c].list = l})
CountLists(b) == Cardinality({l \in 1..Len(lists) : lists[l].board = b})

\* ---------------------------------------------------------------- requests
Idle ==
  [op |-> "none", pc |-> "idle", user |-> NoUser, board |-> None, list |-> None,
   card |-> None, pos |-> None, email |-> "none", old |-> None, snap |-> "none",
   applied |-> 0, status |-> 0, body |-> NoBody, recs |-> <<>>, now |-> 0]

\* A slot takes a new request when it is idle; a response is delivered (Close)
\* before any further database step is taken.
Answering == \E q \in Slots : reqs[q].pc = "done"
Free(r) == reqs[r].pc = "idle" /\ ~Answering
At(r, pc) == reqs[r].pc = pc /\ ~Answering

\* A client learns the id of a board, list or card from the 201 response that
\* creates it: no request names an id whose creating request is still in flight.
BoardKnown(b) == ~\E q \in Slots : reqs[q].pc = "cbUser" /\ reqs[q].board = b
ListKnown(l) == ~\E q \in Slots : reqs[q].pc = "clPush" /\ reqs[q].list = l
CardKnown(c) == ~\E q \in Slots : reqs[q].pc = "ccPush" /\ reqs[q].card = c

Request(op, u, b, l, c) ==
  [Idle EXCEPT !.op = op, !.user = u, !.board = b, !.list = l, !.card = c]

\* res.status(s).json(...): the handler ends; its locals are gone.
Respond(q, s) ==
  [q EXCEPT !.pc = "done", !.status = s, !.pos = None, !.old = None, !.snap = "none"]

Init ==
  /\ boards = <<>>
  /\ lists = <<>>
  /\ cards = <<>>
  /\ userBoards = [u \in Users |-> <<>>]
  /\ reqs = [r \in Slots |-> Idle]

\* -------------------------------------------------------- bounded creation
\* Requests in flight that will still create a list / a card / push a card id.
PendingLists == Cardinality({q \in Slots : reqs[q].pc \in {"clCount", "clSave"}})
PendingCards == Cardinality({q \in Slots : reqs[q].pc \in {"ccList", "ccCount", "ccSave"}})
PendingRefs ==
  Cardinality({q \in Slots :
    reqs[q].pc \in {"ccList", "ccCount", "ccSave", "ccPush",
                    "mvOld", "mvNew", "mvBoard", "mvPull", "mvPush"}})
RECURSIVE RefsFrom(_)
RefsFrom(l) == IF l > Len(lists) THEN 0 ELSE Len(lists[l].cards) + RefsFrom(l + 1)
TotalRefs == RefsFrom(1)

\* ------------------------------------------------- router.post('/') createBoard
SavedUserBoards(u, b) ==
  IF "boards" \in userSchema THEN [userBoards EXCEPT ![u] = Append(@, b)]
  ELSE userBoards

CreateBoardSave(r, u) ==
  /\ Free(r)
  /\ Len(boards) < MaxBoards
  /\ \/ /\ boards' = Append(boards, NewBoard(u))
        /\ reqs' = [reqs EXCEPT ![r] =
             [Request("createBoard", u, Len(boards) + 1, None, None)
                EXCEPT !.pc = "cbUser", !.applied = 1]]
     \/ /\ boards' = boards
        /\ reqs' = [reqs EXCEPT ![r] =
             Respond(Request("createBoard", u, None, None, None), 500)]
  /\ UNCHANGED <<lists, cards, userBoards>>

CreateBoardPushUser(r) ==
  /\ At(r, "cbUser")
  /\ userBoards' = SavedUserBoards(reqs[r].user, reqs[r].board)
  /\ reqs' = [reqs EXCEPT ![r] = Respond([@ EXCEPT !.applied = 2], 201)]
  /\ UNCHANGED <<boards, lists, cards>>

\* ---------------------------------------------- router.get('/:id') getBoard
GetBoard(r, u, b) ==
  /\ Free(r)
  /\ BoardKnown(b)
  /\ reqs' = [reqs EXCEPT ![r] =
       Respond(Request("getBoard", u, b, None, None),
         IF ~BoardExists(b) THEN 404
         ELSE IF AccessDeniedPopulated(boards[b], u) THEN 403
         ELSE 200)]
  /\ UNCHANGED store

\* --------------------------------- router.post('/:id/invite') inviteMember
InviteFindBoard(r, u, b, e) ==
  /\ Free(r)
  /\ BoardKnown(b)
  /\ LET q == [Request("invite", u, b, None, None) EXCEPT !.email = e] IN
     reqs' = [reqs EXCEPT ![r] =
       IF ~BoardExists(b) THEN Respond(q, 404)
       ELSE IF InviteDenied(boards[b], u) THEN Respond(q, 403)
       ELSE [q EXCEPT !.pc = "invUser",
                      !.snap = IF Includes(boards[b].members, FindUserByEmail(e))
                               THEN "member" ELSE "new"]]
  /\ UNCHANGED store

InviteFindUser(r) ==
  /\ At(r, "invUser")
  /\ reqs' = [reqs EXCEPT ![r] =
       IF FindUserByEmail(reqs[r].email) = NoUser THEN Respond(@, 404)
       ELSE IF reqs[r].snap = "member" THEN Respond(@, 400)
       ELSE [@ EXCEPT !.pc = "invSaveBoard", !.snap = "none"]]
  /\ UNCHANGED store

InviteSaveBoard(r) ==
  /\ At(r, "invSaveBoard")
  /\ boards' = [boards EXCEPT ![reqs[r].board].members =
                  Append(@, FindUserByEmail(reqs[r].email))]
  /\ reqs' = [reqs EXCEPT ![r] = [@ EXCEPT !.pc = "invSaveUser", !.applied = 1]]
  /\ UNCHANGED <<lists, cards, userBoards>>

InviteSaveUser(r) ==
  /\ At(r, "invSaveUser")
  /\ userBoards' = SavedUserBoards(FindUserByEmail(reqs[r].email), reqs[r].board)
  /\ reqs' = [reqs EXCEPT ![r] = Respond([@ EXCEPT !.applied = 2], 200)]
  /\ UNCHANGED <<boards, lists, cards>>

\* ------------------------------------ router.post('/:boardId/lists') createList
CreateListFindBoard(r, u, b, name) ==
  /\ Free(r)
  /\ BoardKnown(b)
  /\ Len(lists) + PendingLists < MaxLists
  /\ LET q == [Request("createList", u, b, None, None) EXCEPT !.body.name = name] IN
     reqs' = [reqs EXCEPT ![r] =
       IF ~BoardExists(b) \/ AccessDenied(boards[b], u) THEN Respond(q, 403)
       ELSE [q EXCEPT !.pc = "clCount"]]
  /\ UNCHANGED store

CreateListCount(r) ==
  /\ At(r, "clCount")
  /\ reqs' = [reqs EXCEPT ![r] = [@ EXCEPT !.pc = "clSave", !.pos = CountLists(reqs[r].board)]]
  /\ UNCHANGED store

CreateListSave(r) ==
  /\ At(r, "clSave")
  /\ lists' = Append(lists, NewList(reqs[r].board, reqs[r].pos, reqs[r].body.name))
  /\ reqs' = [reqs EXCEPT ![r] =
       [@ EXCEPT !.pc = "clPush", !.list = Len(lists) + 1, !.pos = None, !.applied = 1]]
  /\ UNCHANGED <<boards, cards, userBoards>>

CreateListPushBoard(r) ==
  /\ At(r, "clPush")
  /\ boards' = [boards EXCEPT ![reqs[r].board].lists = Append(@, reqs[r].list)]
  /\ reqs' = [reqs EXCEPT ![r] = Respond([@ EXCEPT !.applied = 2], 201)]
  /\ UNCHANGED <<lists, cards, userBoards>>

\* --------------------- router.post('/:boardId/lists/:listId/cards') createCard
CreateCardFindBoard(r, u, b, l, due) ==
  /\ Free(r)
  /\ BoardKnown(b) /\ ListKnown(l)
  /\ Len(cards) + PendingCards < MaxCards
  /\ TotalRefs + PendingRefs < MaxRefs
  /\ reqs' = [reqs EXCEPT ![r] =
       [Request("createCard", u, b, l, None) EXCEPT
          !.pc = "ccList",
          !.body.dueDate = due,
          !.snap = IF ~BoardExists(b) THEN "missing"
                   ELSE IF AccessDenied(boards[b], u) THEN "denied"
                   ELSE "granted"]]
  /\ UNCHANGED store

CreateCardFindList(r) ==
  /\ At(r, "ccList")
  /\ reqs' = [reqs EXCEPT ![r] =
       IF \/ reqs[r].snap = "missing"
          \/ ~ListExists(reqs[r].list)
          \/ lists[reqs[r].list].board # reqs[r].board
       THEN Respond(@, 404)
       ELSE IF reqs[r].snap = "denied" THEN Respond(@, 403)
       ELSE [@ EXCEPT !.pc = "ccCount", !.snap = "none"]]
  /\ UNCHANGED store

CreateCardCount(r) ==
  /\ At(r, "ccCount")
  /\ reqs' = [reqs EXCEPT ![r] = [@ EXCEPT !.pc = "ccSave", !.pos = CountCards(reqs[r].list)]]
  /\ UNCHANGED store

CreateCardSave(r) ==
  /\ At(r, "ccSave")
  /\ cards' = Append(cards, NewCard(reqs[r].list, reqs[r].pos, reqs[r].user, reqs[r].body.dueDate))
  /\ reqs' = [reqs EXCEPT ![r] =
       [@ EXCEPT !.pc = "ccPush", !.card = Len(cards) + 1, !.pos = None, !.applied = 1]]
  /\ UNCHANGED <<boards, lists, userBoards>>

CreateCardPushList(r) ==
  /\ At(r, "ccPush")
  /\ lists' = [lists EXCEPT ![reqs[r].list].cards = Append(@, reqs[r].card)]
  /\ reqs' = [reqs EXCEPT ![r] = Respond([@ EXCEPT !.applied = 2], 201)]
  /\ UNCHANGED <<boards, cards, userBoards>>

\* ------------------------------------- router.patch('/cards/:id/move') moveCard
\* card.list = newListId; card.position = position || 0: a path is written by
\* card.save() only when the assignment changed the value the document was read with.
MoveCardFindCard(r, u, c, l, p) ==
  /\ Free(r)
  /\ CardKnown(c) /\ ListKnown(l)
  /\ TotalRefs + PendingRefs < MaxRefs
  /\ LET q == Request("moveCard", u, None, l, c) IN
     reqs' = [reqs EXCEPT ![r] =
       IF ~CardExists(c) THEN Respond(q, 404)
       ELSE [q EXCEPT !.pc = "mvOld",
                      !.old = cards[c].list,
                      !.pos = IF PositionOrZero(p) = cards[c].position THEN Undefined
                              ELSE PositionOrZero(p)]]
  /\ UNCHANGED store

MoveCardFindOldList(r) ==
  /\ At(r, "mvOld")
  /\ reqs' = [reqs EXCEPT ![r] =
       [@ EXCEPT !.pc = "mvNew",
                 !.snap = IF ListExists(reqs[r].old) THEN "found" ELSE "missing"]]
  /\ UNCHANGED store

\* (the board of the list the card is in, when that list exists)
MoveCardBoardOfOldList(r) ==
  IF ListExists(reqs[r].old) THEN lists[reqs[r].old].board
  ELSE lists[reqs[r].list].board

\* Board.findById(newList.board): the board the access check is made against
MoveCardBoard(r) == lists[reqs[r].list].board

\* newList.board is read right after the lookup: a TypeError when newList is null
MoveCardFindNewList(r) ==
  /\ At(r, "mvNew")
  /\ reqs' = [reqs EXCEPT ![r] =
       IF ~ListExists(reqs[r].list) THEN Respond(@, 500)
       ELSE [@ EXCEPT !.pc = "mvBoard", !.board = MoveCardBoard(r)]]
  /\ UNCHANGED store

MoveCardFindBoard(r) ==
  /\ At(r, "mvBoard")
  /\ reqs' = [reqs EXCEPT ![r] =
       IF reqs[r].snap = "missing" \/ ~BoardExists(reqs[r].board) THEN Respond(@, 404)
       ELSE IF AccessDenied(boards[reqs[r].board], reqs[r].user) THEN Respond(@, 403)
       ELSE [@ EXCEPT !.pc = "mvPull", !.snap = "none"]]
  /\ UNCHANGED store

MoveCardPull(r) ==
  /\ At(r, "mvPull")
  /\ lists' = [lists EXCEPT ![reqs[r].old].cards = Without(@, reqs[r].card)]
  /\ reqs' = [reqs EXCEPT ![r] = [@ EXCEPT !.pc = "mvPush", !.applied = 1]]
  /\ UNCHANGED <<boards, cards, userBoards>>

MoveCardPush(r) ==
  /\ At(r, "mvPush")
  /\ lists' = [lists EXCEPT ![reqs[r].list].cards = Append(@, reqs[r].card)]
  /\ reqs' = [reqs EXCEPT ![r] = [@ EXCEPT !.pc = "mvSave", !.applied = 2]]
  /\ UNCHANGED <<boards, cards, userBoards>>

MoveCardSave(r) ==
  /\ At(r, "mvSave")
  /\ cards' = [cards EXCEPT ![reqs[r].card] =
       [@ EXCEPT !.list = IF reqs[r].list # reqs[r].old THEN reqs[r].list ELSE @,
                 !.position = IF reqs[r].pos # Undefined THEN reqs[r].pos ELSE @]]
  /\ reqs' = [reqs EXCEPT ![r] = [Respond([@ EXCEPT !.applied = 3], 200) EXCEPT !.old = reqs[r].old]]
  /\ UNCHANGED <<boards, lists, userBoards>>

\* ----------------------------------------- router.patch('/cards/:id') patchCard
\* updates = req.body: its `list` (None: absent) and `position` (Undefined:
\* absent) fields, and in x its dueDate, priority, status and createdBy fields.
PatchCardFindCard(r, u, c, l, p, x) ==
  /\ Free(r)
  /\ CardKnown(c) /\ (l # None => ListKnown(l))
  /\ LET q == [Request("patchCard", u, None, l, c) EXCEPT !.pos = p, !.body = x] IN
     reqs' = [reqs EXCEPT ![r] =
       IF ~CardExists(c) THEN Respond(q, 404)
       ELSE [q EXCEPT !.pc = "ptList", !.old = cards[c].list]]
  /\ UNCHANGED store

\* list.board is read right after the lookup: a TypeError when list is null
PatchCardFindList(r) ==
  /\ At(r, "ptList")
  /\ reqs' = [reqs EXCEPT ![r] =
       IF ~ListExists(reqs[r].old) THEN Respond(@, 500)
       ELSE [@ EXCEPT !.pc = "ptBoard", !.board = lists[reqs[r].old].board, !.old = None]]
  /\ UNCHANGED store

PatchCardFindBoard(r) ==
  /\ At(r, "ptBoard")
  /\ reqs' = [reqs EXCEPT ![r] =
       IF ~BoardExists(reqs[r].board) THEN Respond(@, 500)
       ELSE IF AccessDenied(boards[reqs[r].board], reqs[r].user) THEN Respond(@, 403)
       ELSE [@ EXCEPT !.pc = "ptUpdate"]]
  /\ UNCHANGED store

\* Card.findByIdAndUpdate(id, updates, { new: true }): every schema path the
\* body supplies is $set, cast to the path's type; update validators are off
\* unless runValidators is given, so the enumerations are not checked.
PatchCardUpdate(r) ==
  /\ At(r, "ptUpdate")
  /\ cards' = [cards EXCEPT ![reqs[r].card] =
       [@ EXCEPT !.list = IF reqs[r].list # None THEN reqs[r].list ELSE @,
                 !.position = IF reqs[r].pos # Undefined THEN reqs[r].pos ELSE @,
                 !.dueDate = IF reqs[r].body.dueDate # NoDate THEN reqs[r].body.dueDate ELSE @,
                 !.priority = IF reqs[r].body.priority # Absent THEN reqs[r].body.priority ELSE @,
                 !.status = IF reqs[r].body.status # Absent THEN reqs[r].body.status ELSE @,
                 !.createdBy = IF reqs[r].body.createdBy # NoUser THEN reqs[r].body.createdBy ELSE @]]
  /\ reqs' = [reqs EXCEPT ![r] = [Respond([@ EXCEPT !.applied = 1], 200) EXCEPT !.pos = reqs[r].pos]]
  /\ UNCHANGED <<boards, lists, userBoards>>

\* ------------------------------------------------------------------ strings
UpperCase == <<"A", "B", "C", "D", "E", "F", "G", "H", "I", "J", "K", "L", "M", "N", "O", "P", "Q", "R", "S", "T", "U", "V", "W", "X", "Y", "Z">>
LowerCase == <<"a", "b", "c", "d", "e", "f", "g", "h", "i", "j", "k", "l", "m", "n", "o", "p", "q", "r", "s", "t", "u", "v", "w", "x", "y", "z">>

LowerOf(ch) ==
  IF \E i \in 1..Len(UpperCase) : UpperCase[i] = ch
  THEN LowerCase[CHOOSE i \in 1..Len(UpperCase) : UpperCase[i] = ch]
  ELSE ch

\* String.prototype.toLowerCase
ToLowerCase(str) == [i \in 1..Len(str) |-> LowerOf(str[i])]

\* String.prototype.includes: part occurs in str
StringIncludes(str, part) ==
  \E i \in 0..(Len(str) - Len(part)) :
    \A j \in 1..Len(part) : str[i + j] = part[j]

\* The substrings the recommendation rules look for in lower-cased list names
InProgressText == <<"i", "n", " ", "p", "r", "o", "g", "r", "e", "s", "s">>
TodoText == <<"t", "o", "d", "o">>
BacklogText == <<"b", "a", "c", "k", "l", "o", "g">>
DoneText == <<"d", "o", "n", "e">>
CompleteText == <<"c", "o", "m", "p", "l", "e", "t", "e">>

\* ------------------------- router.get('/:id/recommendations') getRecommendations
\* Times are counted in half days: 1000 * 60 * 60 * 24 ms are UnitsPerDay units.
UnitsPerDay == 2

\* populate({ path: 'lists', populate: { path: 'cards' } }): the ids replaced by
\* the documents they name, ids that name no document dropped
CardDoc(c) ==
  [id |-> c, priority |-> cards[c].priority, status |-> cards[c].status,
   dueDate |-> cards[c].dueDate]

PopulatedCards(ids) ==
  LET found == SelectSeq(ids, LAMBDA c : CardExists(c))
  IN [i \in 1..Len(found) |-> CardDoc(found[i])]

PopulatedLists(b) ==
  LET found == SelectSeq(boards[b].lists, LAMBDA l : ListExists(l))
  IN [i \in 1..Len(found) |->
        [name |-> lists[found[i]].name, cards |-> PopulatedCards(lists[found[i]].cards)]]

\* allCards: board.lists.forEach((list) => allCards.push(...list.cards))
RECURSIVE AllCards(_)
AllCards(L) == IF L = <<>> THEN <<>> ELSE Head(L).cards \o AllCards(Tail(L))

\* list.cards.some((c) => c._id.toString() === card._id.toString())
HasCard(list, card) == \E i \in 1..Len(list.cards) : list.cards[i].id = card.id

\* Array.prototype.find / findIndex over board.lists: the first index of the
\* set, None when there is none
FirstOf(S) == IF S = {} THEN None ELSE CHOOSE i \in S : \A j \in S : i <= j

NameIncludes(list, part) == StringIncludes(ToLowerCase(list.name), part)

CriticalList(L) == FirstOf({i \in 1..Len(L) : NameIncludes(L[i], InProgressText)})

TodoList(L) ==
  FirstOf({i \in 1..Len(L) :
             NameIncludes(L[i], TodoText) \/ NameIncludes(L[i], BacklogText)})
DoneList(L) ==
  FirstOf({i \in 1..Len(L) :
             NameIncludes(L[i], DoneText) \/ NameIncludes(L[i], CompleteText)})
CurrentListIndex(L, card) == FirstOf({i \in 1..Len(L) : HasCard(L[i], card)})

Advisory(card, type, severity) == [cardId |-> card.id, type |-> type, severity |-> severity]

\* Math.ceil((dueDate - now) / (1000 * 60 * 60 * 24))
DaysUntilDue(due, now) == 0 - ((now - due) \div UnitsPerDay)

\* The rule groups; each gives the advisories one card adds to its array.
\* recommendations.priority
PriorityRules(card, L) ==
  (IF /\ card.priority = "Critical"
      /\ CriticalList(L) # None
      /\ ~HasCard(L[CriticalList(L)], card)
   THEN <<Advisory(card, "critical_priority", "high")>> ELSE <<>>)
  \o
  (IF /\ card.priority = "High"
      /\ TodoList(L) # None
      /\ HasCard(L[TodoList(L)], card)
   THEN <<Advisory(card, "high_priority_waiting", "medium")>> ELSE <<>>)

\* (the due-date conditions as independent ifs)
DueDateRulesIndependent(card, now) ==
  IF card.dueDate # NoDate
  THEN LET days == DaysUntilDue(card.dueDate, now) IN
       (IF days < 0 /\ card.status # "Done"
        THEN <<Advisory(card, "overdue",
                 IF card.priority = "Critical" THEN "high" ELSE "medium")>> ELSE <<>>)
       \o
       (IF days <= 2 /\ card.status \notin {"Done", "In Progress"}
        THEN <<Advisory(card, "due_soon",
                 IF card.priority = "Critical" THEN "high" ELSE "medium")>> ELSE <<>>)
       \o
       (IF days <= 7 /\ card.status = "Backlog"
        THEN <<Advisory(card, "upcoming_deadline", "low")>> ELSE <<>>)
  ELSE IF card.priority \in {"Critical", "High"}
       THEN <<Advisory(card, "no_due_date_high_priority",
                IF card.priority = "Critical" THEN "medium" ELSE "low")>>
       ELSE <<>>

\* recommendations.dueDate: an if / else-if chain
DueDateRules(card, now) ==
  IF card.dueDate # NoDate
  THEN LET days == DaysUntilDue(card.dueDate, now) IN
       IF days < 0
       THEN IF card.status # "Done"
            THEN <<Advisory(card, "overdue",
                     IF card.priority = "Critical" THEN "high" ELSE "medium")>>
            ELSE <<>>
       ELSE IF days <= 2
       THEN IF card.status # "Done" /\ card.status # "In Progress"
            THEN <<Advisory(card, "due_soon",
                     IF card.priority = "Critical" THEN "high" ELSE "medium")>>
            ELSE <<>>
       ELSE IF days <= 7 /\ card.status = "Backlog"
       THEN <<Advisory(card, "upcoming_deadline", "low")>>
       ELSE <<>>
  ELSE IF card.priority = "Critical" \/ card.priority = "High"
       THEN <<Advisory(card, "no_due_date_high_priority",
                IF card.priority = "Critical" THEN "medium" ELSE "low")>>
       ELSE <<>>

\* recommendations.status
StatusRules(card, now) ==
  (IF card.status = "In Progress" /\ card.dueDate # NoDate
   THEN IF DaysUntilDue(card.dueDate, now) < 0
        THEN <<Advisory(card, "in_progress_overdue", "high")>>
        ELSE IF DaysUntilDue(card.dueDate, now) <= 1
        THEN <<Advisory(card, "in_progress_due_soon", "medium")>>
        ELSE <<>>
   ELSE <<>>)
  \o
  (IF card.status = "Blocked"
   THEN <<Advisory(card, "blocked_task", "medium")>> ELSE <<>>)
  \o
  (IF card.status = "Todo" /\ card.priority = "Critical"
   THEN <<Advisory(card, "critical_in_todo", "high")>> ELSE <<>>)

\* recommendations.alerts
AlertRules(card, L) ==
  IF /\ card.status = "Done"
     /\ ~NameIncludes(L[CurrentListIndex(L, card)], DoneText)
     /\ DoneList(L) # None
  THEN <<Advisory(card, "move_to_done", "low")>> ELSE <<>>

Groups == <<"alerts", "priority", "dueDate", "status">>

RulesOf(group, card, L, now) ==
  CASE group = "alerts" -> AlertRules(card, L)
    [] group = "priority" -> PriorityRules(card, L)
    [] group = "dueDate" -> DueDateRules(card, now)
    [] group = "status" -> StatusRules(card, now)

\* allCards.forEach: the array of one group after every card has been visited
RECURSIVE GroupArray(_, _, _, _)
GroupArray(group, C, L, now) ==
  IF C = <<>> THEN <<>>
  ELSE RulesOf(group, Head(C), L, now) \o GroupArray(group, Tail(C), L, now)

\* [...alerts, ...priority, ...dueDate, ...status]
Concatenated(L, now) ==
  GroupArray("alerts", AllCards(L), L, now) \o GroupArray("priority", AllCards(L), L, now)
  \o GroupArray("dueDate", AllCards(L), L, now) \o GroupArray("status", AllCards(L), L, now)

SeverityOrder == [high |-> 3, medium |-> 2, low |-> 1]

\* (a comparator that calls every pair equal)
CompareNothing(a, b) == 0

\* (a, b) => severityOrder[b.severity] - severityOrder[a.severity]
Compare(a, b) == SeverityOrder[b.severity] - SeverityOrder[a.severity]

\* Array.prototype.sort: a stable comparison sort; x is placed before the first
\* element the comparator orders after it.
InsertSorted(sorted, x) ==
  LET after == {i \in 1..Len(sorted) : Compare(x, sorted[i]) < 0}
      at == IF after = {} THEN Len(sorted) + 1 ELSE FirstOf(after)
  IN SubSeq(sorted, 1, at - 1) \o <<x>> \o SubSeq(sorted, at, Len(sorted))

RECURSIVE Sort(_)
Sort(arr) ==
  IF arr = <<>> THEN <<>>
  ELSE InsertSorted(Sort(SubSeq(arr, 1, Len(arr) - 1)), arr[Len(arr)])

\* allRecommendations
AllRecommendations(b, now) == Sort(Concatenated(PopulatedLists(b), now))

\* (a handler that answers 404 for a board without lists)
RecommendationsAnswerRequiringLists(b, u, now) ==
  IF ~BoardExists(b) \/ AccessDenied(boards[b], u)
  THEN [status |-> 403, recs |-> <<>>]
  ELSE IF boards[b].lists = <<>> THEN [status |-> 404, recs |-> <<>>]
  ELSE [status |-> 200, recs |-> AllRecommendations(b, now)]

\* The response: 403, or 200 with { recommendations: allRecommendations }
RecommendationsAnswer(b, u, now) ==
  IF ~BoardExists(b) \/ AccessDenied(boards[b], u)
  THEN [status |-> 403, recs |-> <<>>]
  ELSE [status |-> 200, recs |-> AllRecommendations(b, now)]

\* now = new Date() is the time of the request
GetRecommendations(r, u, b, now) ==
  /\ Free(r)
  /\ BoardKnown(b)
  /\ reqs' = [reqs EXCEPT ![r] =
       [Respond(Request("getRecommendations", u, b, None, None),
                RecommendationsAnswer(b, u, now).status)
          EXCEPT !.recs = RecommendationsAnswer(b, u, now).recs, !.now = now]]
  /\ UNCHANGED store

\* ------------------------------------------------------------- catch (error)
\* A database write rejects: the handler's catch block answers 500 and the
\* writes already applied stay.
WritePcs ==
  {"cbUser", "invSaveBoard", "invSaveUser", "clSave", "clPush", "ccSave", "ccPush",
   "mvPull", "mvPush", "mvSave", "ptUpdate"}

WriteFails(r) ==
  /\ reqs[r].pc \in WritePcs
  /\ ~Answering
  /\ reqs' = [reqs EXCEPT ![r] = Respond(@, 500)]
  /\ UNCHANGED store

\* The response has been sent: the slot is free again.
Close(r) ==
  /\ reqs[r].pc = "done"
  /\ reqs' = [reqs EXCEPT ![r] = Idle]
  /\ UNCHANGED store

\* ------------------------------------------------------------ handler groups
\* The steps of each handler, for requests by the users U (and the further
\* request inputs named).
BoardSteps(r, U) ==
  \/ \E u \in U : CreateBoardSave(r, u)
  \/ CreateBoardPushUser(r)

InviteSteps(r, U, E) ==
  \/ \E u \in U, b \in BoardIds, e \in E : InviteFindBoard(r, u, b, e)
  \/ InviteFindUser(r)
  \/ InviteSaveBoard(r)
  \/ InviteSaveUser(r)

ListSteps(r, U, N) ==
  \/ \E u \in U, b \in BoardIds, name \in N : CreateListFindBoard(r, u, b, name)
  \/ CreateListCount(r)
  \/ CreateListSave(r)
  \/ CreateListPushBoard(r)

CardSteps(r, U, D) ==
  \/ \E u \in U, b \in BoardIds, l \in ListIds, due \in D :
       CreateCardFindBoard(r, u, b, l, due)
  \/ CreateCardFindList(r)
  \/ CreateCardCount(r)
  \/ CreateCardSave(r)
  \/ CreateCardPushList(r)

MoveSteps(r, U, P) ==
  \/ \E u \in U, c \in CardIds, l \in ListIds, p \in P :
       MoveCardFindCard(r, u, c, l, p)
  \/ MoveCardFindOldList(r)
  \/ MoveCardFindNewList(r)
  \/ MoveCardFindBoard(r)
  \/ MoveCardPull(r)
  \/ MoveCardPush(r)
  \/ MoveCardSave(r)

PatchSteps(r, U, L, P, X) ==
  \/ \E u \in U, c \in CardIds, l \in L, p \in P, x \in X :
       PatchCardFindCard(r, u, c, l, p, x)
  \/ PatchCardFindList(r)
  \/ PatchCardFindBoard(r)
  \/ PatchCardUpdate(r)

ReadSteps(r, U, T) ==
  \/ \E u \in U, b \in BoardIds : GetBoard(r, u, b)
  \/ \E u \in U, b \in BoardIds, now \in T : GetRecommendations(r, u, b, now)

\* ------------------------------------------------------------ request inputs
\* List names, request times and due dates (in half days), patchCard bodies
InProgressName == <<"I", "n", " ", "P", "r", "o", "g", "r", "e", "s", "s">>
BacklogName == <<"B", "a", "c", "k", "l", "o", "g">>
TodoName == <<"T", "O", "D", "O">>
DoneName == <<"D", "o", "n", "e">>
ReviewName == <<"R", "e", "v", "i", "e", "w">>

Nows == {20, 21}
DueDates == {NoDate, 17, 19, 24, 25, 34, 37}

PatchBodies ==
  {[NoBody EXCEPT !.priority = p, !.status = st, !.createdBy = u] :
     p \in {Absent, "High", "Urgent"}, st \in {Absent, "Archived"},
     u \in {NoUser, "u2"}}

\* ------------------------------------------------------------ specifications
\* The whole server: every handler, every input, NumSlots requests in flight.
Next ==
  \E r \in Slots :
    \/ BoardSteps(r, Users)
    \/ InviteSteps(r, Users, Emails)
    \/ ListSteps(r, Users, {InProgressName, BacklogName, TodoName, DoneName, ReviewName})
    \/ CardSteps(r, Users, DueDates)
    \/ MoveSteps(r, Users, Positions)
    \/ PatchSteps(r, Users, ListIds \cup {None}, Positions, PatchBodies)
    \/ ReadSteps(r, Users, Nows)
    \/ WriteFails(r)
    \/ Close(r)

Spec == Init /\ [][Next]_vars

\* Membership: boards are created and members invited, requests interleaved.
NextMembers ==
  \E r \in Slots :
    \/ BoardSteps(r, Users)
    \/ InviteSteps(r, Users, Emails)
    \/ WriteFails(r)
    \/ Close(r)

SpecMembers == Init /\ [][NextMembers]_vars

\* Ordering: one user builds a board, its lists and cards and moves the cards,
\* requests interleaved, every later write succeeding (only the first save of createBoard may fail).
NextOrdering ==
  \E r \in Slots :
    \/ BoardSteps(r, {"u1"})
    \/ ListSteps(r, {"u1"}, {DefaultName})
    \/ CardSteps(r, {"u1"}, {NoDate})
    \/ MoveSteps(r, {"u1"}, {Undefined})
    \/ Close(r)

SpecOrdering == Init /\ [][NextOrdering]_vars

\* One request at a time (slot 1), by any user: every handler but invite,
\* every later write succeeding (only the first save of createBoard may fail).
NextSerial ==
  \/ BoardSteps(1, Users)
  \/ ListSteps(1, Users, {DefaultName})
  \/ CardSteps(1, Users, {NoDate})
  \/ MoveSteps(1, Users, Positions)
  \/ PatchSteps(1, Users, ListIds \cup {None}, {Undefined}, {NoBody})
  \/ ReadSteps(1, Users, {0})
  \/ Close(1)

SpecSerial == Init /\ [][NextSerial]_vars

\* One request at a time, by one user: cards are created, moved and patched,
\* and any write may fail.
NextMoves ==
  \/ BoardSteps(1, {"u1"})
  \/ ListSteps(1, {"u1"}, {DefaultName})
  \/ CardSteps(1, {"u1"}, {NoDate})
  \/ MoveSteps(1, {"u1"}, Positions)
  \/ PatchSteps(1, {"u1"}, ListIds \cup {None}, {Undefined}, {NoBody})
  \/ WriteFails(1)
  \/ Close(1)

SpecMoves == Init /\ [][NextMoves]_vars

\* One request at a time, by one user: cards are created and moved, every
\* write succeeding.
NextSequence ==
  \/ BoardSteps(1, {"u1"})
  \/ ListSteps(1, {"u1"}, {DefaultName})
  \/ CardSteps(1, {"u1"}, {NoDate})
  \/ MoveSteps(1, {"u1"}, Positions)
  \/ Close(1)

SpecSequence == Init /\ [][NextSequence]_vars

\* The access checks as functions of the board document: the store holds one
\* board with any owner and any member list the board schema admits, a list of
\* it and a card of the list, and the handlers that check access run one at a
\* time.
MemberLists == {<<>>} \cup {<<u>> : u \in Users} \cup {<<u, v>> : u, v \in Users}

InitAccess ==
  /\ \E o \in Users, m \in MemberLists :
       boards = <<[owner |-> o, members |-> m, lists |-> <<1>>]>>
  /\ lists = <<[NewList(1, 0, DefaultName) EXCEPT !.cards = <<1>>]>>
  /\ \E u \in Users : cards = <<NewCard(1, 0, u, NoDate)>>
  /\ userBoards = [u \in Users |-> <<>>]
  /\ reqs = [r \in Slots |-> Idle]

NextAccess ==
  \/ ReadSteps(1, Users, {0})
  \/ ListSteps(1, Users, {DefaultName})
  \/ CardSteps(1, Users, {NoDate})
  \/ PatchSteps(1, Users, {None}, {Undefined}, {NoBody})
  \/ Close(1)

SpecAccess == InitAccess /\ [][NextAccess]_vars

\* One request at a time, by one user: cards are created, moved and patched
\* with bodies that supply a priority, a status or a creator, values outside
\* the enumerations included.
NextPatch ==
  \/ BoardSteps(1, {"u1"})
  \/ ListSteps(1, {"u1"}, {DefaultName})
  \/ CardSteps(1, {"u1"}, {NoDate})
  \/ MoveSteps(1, {"u1"}, {Undefined})
  \/ PatchSteps(1, {"u1"}, {None}, {Undefined}, PatchBodies)
  \/ Close(1)

SpecPatch == Init /\ [][NextPatch]_vars

\* The ids in 1..k of the cards that name list l, ascending or descending
RECURSIVE CardsNaming(_, _, _, _)
CardsNaming(cs, l, k, rev) ==
  IF k = 0 THEN <<>>
  ELSE LET here == IF cs[k].list = l THEN <<k>> ELSE <<>>
       IN IF rev THEN here \o CardsNaming(cs, l, k - 1, rev)
          ELSE CardsNaming(cs, l, k - 1, rev) \o here

\* The recommendation rules as a function of the populated board and the time
\* of the request: the store holds one board of u1 with up to MaxLists lists,
\* named from N, and up to MaxCards cards, each in one of the lists (in id
\* order or in reverse) with a priority from P, a status from S and a due date
\* from D; recommendations are requested at the times Nows.
InitAdvice(N, P, S, D) ==
  /\ \E n \in 0..MaxLists, k \in 0..MaxCards, rev \in BOOLEAN :
       \E names \in [1..n -> N] :
         \E cs \in [1..k -> [list : 1..n, priority : P, status : S, dueDate : D]] :
           /\ (k < 2 => ~rev)
           /\ boards = <<[NewBoard("u1") EXCEPT !.lists = [i \in 1..n |-> i]]>>
           /\ lists = [i \in 1..n |->
                [NewList(1, i - 1, names[i]) EXCEPT !.cards = CardsNaming(cs, i, k, rev)]]
           /\ cards = [c \in 1..k |->
                [NewCard(cs[c].list, Len(CardsNaming(cs, cs[c].list, c - 1, FALSE)), "u1",
                         cs[c].dueDate)
                   EXCEPT !.priority = cs[c].priority, !.status = cs[c].status]]
  /\ userBoards = [u \in Users |-> <<>>]
  /\ reqs = [r \in Slots |-> Idle]

NextAdvice ==
  \/ \E u \in Users, now \in Nows : GetRecommendations(1, u, 1, now)
  \/ Close(1)

\* Every rule group together, on fewer values of each field
SpecAdvice ==
  /\ InitAdvice({InProgressName, BacklogName, DoneName}, {"Critical", "High", "Low"},
                {"Todo", "In Progress", "Blocked", "Done"}, {NoDate, 19, 24})
  /\ [][NextAdvice]_vars

\* The priority rules: every priority, lists of every kind of name
SpecPriorityAdvice ==
  /\ InitAdvice({InProgressName, BacklogName, TodoName, DoneName, ReviewName},
                PriorityEnum, {"Todo", "In Progress"}, {NoDate})
  /\ [][NextAdvice]_vars

\* The due-date rules: every status and every due date
SpecDueAdvice ==
  /\ InitAdvice({ReviewName}, {"Critical", "Medium"}, StatusEnum, DueDates)
  /\ [][NextAdvice]_vars

\* ------------------------------------------------------------------- claims
Quiescent == \A r \in Slots : reqs[r].pc \in {"idle", "done"}
Ended(r, op) == reqs[r].pc = "done" /\ reqs[r].op = op

Contains(s, x) == \E i \in 1..Len(s) : s[i] = x
IsMember(b, u) == Contains(boards[b].members, u)

\* canAccess(board, userId): the owner, or an element of board.members
CanAccess(b, u) == boards[b].owner = u \/ IsMember(b, u)

\* The handlers that check access to a board, and where a request is once its
\* check has passed.
Guarded == {"createList", "createCard", "moveCard", "patchCard", "getRecommendations"}
PostCheckPcs ==
  {"clCount", "clSave", "clPush", "ccCount", "ccSave", "ccPush",
   "mvPull", "mvPush", "mvSave", "ptUpdate"}
Passed(r) ==
  \/ reqs[r].pc \in PostCheckPcs
  \/ reqs[r].applied > 0
  \/ reqs[r].pc = "done" /\ reqs[r].status \in {200, 201}
Denied(r) == reqs[r].pc = "done" /\ reqs[r].status = 403
Invitee(r) == FindUserByEmail(reqs[r].email)

\* The number of times card c is referenced by the card sequences of all lists
RECURSIVE RefsTo(_, _)
RefsTo(c, l) ==
  IF l > Len(lists) THEN 0
  ELSE Cardinality({i \in 1..Len(lists[l].cards) : lists[l].cards[i] = c}) + RefsTo(c, l + 1)

\* C1: a successful moveCard of a card whose list field named A to a different
\* list B leaves the card absent from A's card sequence, present in B's, and
\* the card's list field equal to B (requests run one at a time).
MoveCardPostcondition ==
  \A r \in Slots :
    (Ended(r, "moveCard") /\ reqs[r].status = 200 /\ reqs[r].old # reqs[r].list) =>
      /\ ~Contains(lists[reqs[r].old].cards, reqs[r].card)
      /\ Contains(lists[reqs[r].list].cards, reqs[r].card)
      /\ cards[reqs[r].card].list = reqs[r].list

MoveCardSucceeded ==
  \E r \in Slots :
    /\ Ended(r, "moveCard") /\ reqs[r].status = 200 /\ reqs[r].old # reqs[r].list
    /\ Contains(lists[reqs[r].list].cards, reqs[r].card)

\* C2: whenever no request is in flight, every card's id appears in the card
\* sequence of exactly one list, exactly once.
CardInExactlyOneList ==
  Quiescent => \A c \in 1..Len(cards) : RefsTo(c, 1) = 1

\* C3: a moveCard that has ended has applied all three of its writes or none.
MoveCardAllOrNothing ==
  \A r \in Slots : Ended(r, "moveCard") => reqs[r].applied \in {0, 3}

\* C4: a list (a card) is stored with position = the number of lists of its
\* board (cards of its list) in the store immediately before it is stored.
PositionIsSiblingCount ==
  [][/\ Len(lists') > Len(lists) =>
          lists'[Len(lists')].position = CountLists(lists'[Len(lists')].board)
     /\ Len(cards') > Len(cards) =>
          cards'[Len(cards')].position = CountCards(cards'[Len(cards')].list)]_vars

\* C5: whenever no request is in flight, no two distinct cards whose list field
\* names the same list have the same position.
SiblingPositionsDistinct ==
  Quiescent =>
    \A c, d \in 1..Len(cards) :
      (c # d /\ cards[c].list = cards[d].list) => cards[c].position # cards[d].position

DeniedLeavesStoreUnchanged ==
  /\ [](\A r \in Slots :
          reqs[r].op \in Guarded =>
            /\ Passed(r) =>
                 BoardExists(reqs[r].board) /\ CanAccess(reqs[r].board, reqs[r].user)
            /\ (/\ reqs[r].pc = "done"
                /\ BoardExists(reqs[r].board)
                /\ ~CanAccess(reqs[r].board, reqs[r].user)) =>
                 reqs[r].status \in {403, 404}
            /\ Denied(r) => reqs[r].applied = 0)
  /\ [][\A r \in Slots :
          (reqs[r].pc # "done" /\ reqs'[r].pc = "done" /\ reqs'[r].status = 403) =>
            store' = store]_vars

MoveCardDenied ==
  \E r \in Slots :
    /\ Ended(r, "moveCard") /\ reqs[r].status = 403
    /\ BoardExists(reqs[r].board) /\ ~CanAccess(reqs[r].board, reqs[r].user)

\* C8: an invite gets past its check, or is answered anything but 403, only
\* when the inviter is the board's owner; an inviter who is not the owner is
\* answered 403 with board.members unchanged.
OnlyOwnerInvites ==
  /\ [](\A r \in Slots :
          (reqs[r].op = "invite" /\ BoardExists(reqs[r].board)) =>
            /\ (\/ reqs[r].pc \in {"invUser", "invSaveBoard", "invSaveUser"}
                \/ reqs[r].applied > 0
                \/ reqs[r].pc = "done" /\ reqs[r].status # 403) =>
                 reqs[r].user = boards[reqs[r].board].owner
            /\ (reqs[r].pc = "done" /\ reqs[r].user # boards[reqs[r].board].owner) =>
                 Denied(r) /\ reqs[r].applied = 0)
  /\ [][\A r \in Slots :
          (reqs[r].pc # "done" /\ Ended(r, "invite")' /\ reqs'[r].status = 403) =>
            boards' = boards]_vars

MemberInviteDenied ==
  \E r \in Slots :
    /\ Ended(r, "invite") /\ reqs[r].status = 403
    /\ BoardExists(reqs[r].board)
    /\ IsMember(reqs[r].board, reqs[r].user)
    /\ reqs[r].user # boards[reqs[r].board].owner

\* C9: an invite by the owner that reads the board while the invitee is in
\* board.members ends with 400 'User already in board', and no record changes
\* between that read and the answer by this request.
AlreadyMemberConflict ==
  /\ [](\A r \in Slots :
          reqs[r].op = "invite" =>
            /\ reqs[r].snap = "member" => reqs[r].pc = "invUser" /\ reqs[r].applied = 0
            /\ (reqs[r].pc = "done" /\ reqs[r].status = 400) =>
                 reqs[r].applied = 0 /\ IsMember(reqs[r].board, Invitee(r)))
  /\ [][\A r \in Slots :
          /\ (/\ reqs[r].pc = "idle" /\ reqs'[r].op = "invite"
              /\ BoardExists(reqs'[r].board)
              /\ reqs'[r].user = boards[reqs'[r].board].owner
              /\ IsMember(reqs'[r].board, FindUserByEmail(reqs'[r].email))) =>
               reqs'[r].snap = "member"
          /\ (reqs[r].snap = "member" /\ reqs'[r] # reqs[r]) =>
               /\ reqs'[r].pc = "done" /\ reqs'[r].status = 400
               /\ store' = store]_vars

InviteConflict ==
  \E r \in Slots :
    /\ Ended(r, "invite") /\ reqs[r].status = 400
    /\ IsMember(reqs[r].board, Invitee(r))

\* C10: once an invite has ended, with success or with a failed save, the
\* invitee is in board.members if and only if the board is in the invitee's
\* stored board list.
InviteUpdatesBothSides ==
  \A r \in Slots :
    (Ended(r, "invite") /\ reqs[r].status \in {200, 500}) =>
      (IsMember(reqs[r].board, Invitee(r)) <=>
         Contains(userBoards[Invitee(r)], reqs[r].board))

\* The rule group an advisory type belongs to, in concatenation order
GroupIndex(type) ==
  CASE type = "move_to_done" -> 1
    [] type \in {"critical_priority", "high_priority_waiting"} -> 2
    [] type \in {"overdue", "due_soon", "upcoming_deadline", "no_due_date_high_priority"} -> 3
    [] type \in {"in_progress_overdue", "in_progress_due_soon", "blocked_task",
                 "critical_in_todo"} -> 4
Severity(x) == SeverityOrder[x.severity]

\* The place of a card in the card iteration order of board b
IterationIndex(b, c) ==
  LET C == AllCards(PopulatedLists(b))
  IN CHOOSE i \in 1..Len(C) : C[i].id = c /\ \A j \in 1..(i - 1) : C[j].id # c

Answered(r) == Ended(r, "getRecommendations") /\ reqs[r].status = 200
Unsorted(r) == Concatenated(PopulatedLists(reqs[r].board), reqs[r].now)

\* C11: in the sequence getRecommendations returns no advisory precedes one of
\* higher severity; the advisories of one severity are in concatenation order,
\* and the concatenation order is the group order alerts, priority, dueDate,
\* status and, within a group, the card iteration order.
SeverityOrdering ==
  \A r \in Slots :
    Answered(r) =>
      LET out == reqs[r].recs
          cat == Unsorted(r)
          Of(sev) == SelectSeq(cat, LAMBDA x : x.severity = sev)
      IN /\ \A i, j \in 1..Len(out) : i < j => Severity(out[i]) >= Severity(out[j])
         /\ out = Of("high") \o Of("medium") \o Of("low")
         /\ \A i, j \in 1..Len(cat) :
              i < j =>
                \/ GroupIndex(cat[i].type) < GroupIndex(cat[j].type)
                \/ /\ GroupIndex(cat[i].type) = GroupIndex(cat[j].type)
                   /\ IterationIndex(reqs[r].board, cat[i].cardId)
                        <= IterationIndex(reqs[r].board, cat[j].cardId)

\* The sort moved an advisory of a later group before one of an earlier group,
\* and two advisories of one severity come from different groups.
SortReordered ==
  \E r \in Slots :
    /\ Answered(r)
    /\ reqs[r].recs # Unsorted(r)
    /\ \E i, j \in 1..Len(reqs[r].recs) :
         /\ i < j
         /\ reqs[r].recs[i].severity = reqs[r].recs[j].severity
         /\ GroupIndex(reqs[r].recs[i].type) < GroupIndex(reqs[r].recs[j].type)

\* The cards on the board of request r, as getRecommendations reads them
CardsOn(r) == AllCards(PopulatedLists(reqs[r].board))
Emits(r, c, type, severity) ==
  \E i \in 1..Len(reqs[r].recs) :
    reqs[r].recs[i] = [cardId |-> c, type |-> type, severity |-> severity]
InSomeList(r, c, parts) ==
  \E l \in 1..Len(PopulatedLists(reqs[r].board)) :
    /\ \E part \in parts : NameIncludes(PopulatedLists(reqs[r].board)[l], part)
    /\ \E i \in 1..Len(PopulatedLists(reqs[r].board)[l].cards) :
         PopulatedLists(reqs[r].board)[l].cards[i].id = c

\* C12: getRecommendations emits critical_priority (high) for a card of the
\* board exactly when the card's priority is Critical and no list whose
\* lower-cased name contains "in progress" contains the card.
CriticalPriorityRule ==
  \A r \in Slots :
    Answered(r) =>
      \A i \in 1..Len(CardsOn(r)) :
        Emits(r, CardsOn(r)[i].id, "critical_priority", "high") <=>
          /\ CardsOn(r)[i].priority = "Critical"
          /\ ~InSomeList(r, CardsOn(r)[i].id, {InProgressText})

\* C13: getRecommendations emits high_priority_waiting (medium) for a card of
\* the board exactly when the card's priority is High and some list whose
\* lower-cased name contains "todo" or "backlog" contains the card.
HighPriorityWaitingRule ==
  \A r \in Slots :
    Answered(r) =>
      \A i \in 1..Len(CardsOn(r)) :
        Emits(r, CardsOn(r)[i].id, "high_priority_waiting", "medium") <=>
          /\ CardsOn(r)[i].priority = "High"
          /\ InSomeList(r, CardsOn(r)[i].id, {TodoText, BacklogText})

DueDateTypes == {"overdue", "due_soon", "upcoming_deadline", "no_due_date_high_priority"}

\* The advisories of the due-date group returned for card c
DueDateAdvisories(r, c) ==
  SelectSeq(reqs[r].recs, LAMBDA x : x.cardId = c /\ x.type \in DueDateTypes)

\* C14: the due-date group emits at most one advisory for a card, and for a
\* card with a due date, daysUntilDue < 0 and a status other than Done exactly
\* one: overdue, high for a Critical card and medium otherwise.
DueDateRuleExclusive ==
  \A r \in Slots :
    Answered(r) =>
      \A i \in 1..Len(CardsOn(r)) :
        LET card == CardsOn(r)[i] IN
        /\ Len(DueDateAdvisories(r, card.id)) <= 1
        /\ (/\ card.dueDate # NoDate
            /\ (card.dueDate - reqs[r].now) <= 0 - UnitsPerDay
            /\ card.status # "Done") =>
             DueDateAdvisories(r, card.id) =
               <<[cardId |-> card.id, type |-> "overdue",
                  severity |-> IF card.priority = "Critical" THEN "high" ELSE "medium"]>>

\* A Todo card that is not Critical and was due more than a day before the
\* request gets one advisory: overdue, medium.
OverdueTodoAdvised ==
  \E r \in Slots :
    /\ Answered(r)
    /\ \E i \in 1..Len(CardsOn(r)) :
         /\ CardsOn(r)[i].status = "Todo"
         /\ CardsOn(r)[i].priority # "Critical"
         /\ CardsOn(r)[i].dueDate # NoDate
         /\ CardsOn(r)[i].dueDate - reqs[r].now <= 0 - UnitsPerDay
         /\ DueDateAdvisories(r, CardsOn(r)[i].id) =
              <<[cardId |-> CardsOn(r)[i].id, type |-> "overdue", severity |-> "medium"]>>

\* C19: getRecommendations on a board the user can access and whose list
\* sequence is empty answers 200 with an empty advisory sequence.
EmptyBoardNoAdvice ==
  \A r \in Slots :
    (/\ Ended(r, "getRecommendations")
     /\ BoardExists(reqs[r].board)
     /\ CanAccess(reqs[r].board, reqs[r].user)
     /\ boards[reqs[r].board].lists = <<>>) =>
      reqs[r].status = 200 /\ reqs[r].recs = <<>>

EmptyBoardAnswered ==
  \E r \in Slots :
    /\ Answered(r)
    /\ CanAccess(reqs[r].board, reqs[r].user)
    /\ boards[reqs[r].board].lists = <<>>
    /\ reqs[r].recs = <<>>

\* What request r names that is missing from the store when it has ended: the
\* board of getBoard, createList, createCard or getRecommendations; the list
\* of createCard (or one of another board); the card of moveCard or patchCard;
\* the destination list of moveCard; the list the card of moveCard or
\* patchCard is in.
NamesMissing(r) ==
  \/ /\ reqs[r].op \in {"getBoard", "createList", "createCard", "getRecommendations"}
     /\ ~BoardExists(reqs[r].board)
  \/ /\ reqs[r].op = "createCard"
     /\ ~ListExists(reqs[r].list) \/ lists[reqs[r].list].board # reqs[r].board
  \/ /\ reqs[r].op \in {"moveCard", "patchCard"}
     /\ \/ ~CardExists(reqs[r].card)
        \/ ~ListExists(cards[reqs[r].card].list)
  \/ /\ reqs[r].op = "moveCard"
     /\ ~ListExists(reqs[r].list)

\* C15: a request that names a board, list or card that does not exist (or a
\* list that is not of the stated board) ends with 404.
MissingIsNotFound ==
  \A r \in Slots : (reqs[r].pc = "done" /\ NamesMissing(r)) => reqs[r].status = 404

\* C16: every stored card's priority and status are values of the schema's
\* enumerations.
CardFieldsInEnum ==
  \A c \in 1..Len(cards) :
    cards[c].priority \in PriorityEnum /\ cards[c].status \in StatusEnum

\* C18: a stored card's creator never changes.
CreatorImmutable ==
  [][\A c \in 1..Len(cards) : cards'[c].createdBy = cards[c].createdBy]_vars

\* C17: a moveCard is past its access check only for a user with access to the
\* board of the destination list, and the check, made with the card, its list,
\* the destination list and that board found, passes exactly when the user is
\* the owner or a member of that board.
MoveChecksDestinationBoard ==
  /\ [](\A r \in Slots :
          (reqs[r].op = "moveCard" /\ Passed(r)) =>
            /\ ListExists(reqs[r].list)
            /\ CanAccess(lists[reqs[r].list].board, reqs[r].user))
  /\ [][\A r \in Slots :
          (/\ reqs[r].op = "moveCard" /\ reqs[r].pc = "mvBoard"
           /\ reqs[r].snap = "found"
           /\ BoardExists(lists[reqs[r].list].board)
           /\ reqs'[r] # reqs[r]) =>
            IF CanAccess(lists[reqs[r].list].board, reqs[r].user)
            THEN reqs'[r].pc = "mvPull"
            ELSE reqs'[r].pc = "done" /\ reqs'[r].status = 403 /\ store' = store]_vars

\* A user without access to the board of the card's list moved the card to a
\* list of a board the user has access to.
MovedFromForeignBoard ==
  \E r \in Slots :
    /\ Ended(r, "moveCard") /\ reqs[r].status = 200
    /\ ListExists(reqs[r].old)
    /\ ~CanAccess(lists[reqs[r].old].board, reqs[r].user)
    /\ CanAccess(lists[reqs[r].list].board, reqs[r].user)

\* C20: no board's member list holds a user twice, and once no request is in
\* flight the invitee of every invite answered 200 is in board.members.
MembersNeverDuplicated ==
  /\ \A b \in 1..Len(boards) :
       \A i, j \in 1..Len(boards[b].members) :
         i # j => boards[b].members[i] # boards[b].members[j]
  /\ Quiescent =>
       \A r \in Slots :
         (Ended(r, "invite") /\ reqs[r].status = 200) => IsMember(reqs[r].board, Invitee(r))

\* C21: whenever no request is in flight, a card's list field names a list
\* exactly when the card's id is in that list's card sequence.
ListFieldMatchesCardSequence ==
  Quiescent =>
    \A c \in 1..Len(cards), l \in 1..Len(lists) :
      cards[c].list = l <=> Contains(lists[l].cards, c)

====
